---- MODULE Spec2Model ----
(***************************************************************************)
(* State-machine model of src/src/modal-deployment.py: the Modal functions *)
(* generate_endpoint, download_generated_code, list_customers and          *)
(* api_generate, over one filesystem that holds the /output volume and the *)
(* per-invocation scratch directories.                                     *)
(*                                                                         *)
(* A path is the sequence of its components (/output/acme/main.py is       *)
(* <<"output", "acme", "main.py">>).  A text whose contents are inspected  *)
(* (the child's stdout) is the sequence of its pieces, where the marker    *)
(* "Session ID:" and the newline are single pieces.  An optional Python    *)
(* value is PyNone or Some(v).                                             *)
(***************************************************************************)
EXTENDS Integers, Sequences, FiniteSets, TLC

VARIABLES
    fs,         \* the filesystem: absolute path -> [kind, data]
    mtime,      \* st_mtime of each top-level directory of /output
    published,  \* the part of /output made visible by the last volume.commit()
    env,        \* TRUE iff ANTHROPIC_API_KEY is in os.environ
    pc,         \* per invocation of generate_endpoint: where it stands
    body,       \* per invocation: the request body, when called over HTTP
    kwargs,     \* per invocation: the arguments it was called with
    tmpdir,     \* per invocation: its TemporaryDirectory
    cmd,        \* per invocation: the argument list given to subprocess.run
    proc,       \* per invocation: the CompletedProcess (returncode, stdout, stderr)
    session_id, \* per invocation: the parsed session id
    generated_files, \* per invocation: the scanned file list
    result,     \* per invocation: what the caller receives
    trace,      \* per invocation: the steps taken so far, in order (history)
    wrote,      \* per invocation: the paths its child process wrote (history)
    reply       \* the outcome of the last list_customers() or
                \* download_generated_code() call

vars == <<fs, mtime, published, env, pc, body, kwargs, tmpdir, cmd, proc, session_id,
          generated_files, result, trace, wrote, reply>>

-----------------------------------------------------------------------------
(* Bounds of the model *)

MaxStdoutLen == 5
MaxTime == 2

Invocations == {"inv1", "inv2"}
TmpNames == {"tmpA", "tmpB"}
CustomerNames == {"acme", "globex"}

-----------------------------------------------------------------------------
(* Python values *)

PyNone == [isNone |-> TRUE]
Some(v) == [isNone |-> FALSE, val |-> v]

\* truth value of an optional str / dict: None, "" and {} are falsy
TruthyStr(o) == ~o.isNone /\ o.val # ""
TruthyDict(o) == ~o.isNone /\ o.val # <<>>

Last(s) == s[Len(s)]

RECURSIVE Concat(_)
Concat(ss) == IF ss = <<>> THEN <<>> ELSE Head(ss) \o Concat(Tail(ss))

-----------------------------------------------------------------------------
(* pathlib over the filesystem fs *)

OutputRoot == <<"output">>
TmpRoot == <<"tmp">>

IsPrefix(d, p) == Len(d) <= Len(p) /\ SubSeq(p, 1, Len(d)) = d

\* Path.relative_to
RelativeTo(p, d) == SubSeq(p, Len(d) + 1, Len(p))

Exists(f, p) == p \in DOMAIN f
IsFile(f, p) == p \in DOMAIN f /\ f[p].kind = "file"
IsDir(f, p) == p \in DOMAIN f /\ f[p].kind = "dir"

\* Path.rglob("*"): every entry below d, files and directories alike
RGlob(f, d) == IF IsDir(f, d)
               THEN {p \in DOMAIN f : IsPrefix(d, p) /\ p # d}
               ELSE {}

\* Path.iterdir
IterDir(f, d) == {p \in DOMAIN f : Len(p) = Len(d) + 1 /\ IsPrefix(d, p)}

DirEntry == [kind |-> "dir", data |-> ""]
FileEntry(data) == [kind |-> "file", data |-> data]

\* Path.mkdir
Mkdir(f, d) == [p \in DOMAIN f \cup {d} |-> IF p = d THEN DirEntry ELSE f[p]]

\* Path.write_text: creates or overwrites the file p
WriteText(f, p, data) ==
    [q \in DOMAIN f \cup {p} |-> IF q = p THEN FileEntry(data) ELSE f[q]]

Ancestors(p) == {SubSeq(p, 1, n) : n \in 1..(Len(p) - 1)}

\* shutil.rmtree, as TemporaryDirectory.cleanup does
RmTree(f, d) == [p \in {q \in DOMAIN f : ~IsPrefix(d, q)} |-> f[p]]

\* the part of the filesystem below the volume's mount point
Volume(f) == [p \in {q \in DOMAIN f : IsPrefix(OutputRoot, q)} |-> f[p]]

-----------------------------------------------------------------------------
(* Text handling of generate_endpoint *)

Marker == "Session ID:"
Newline == "\n"
Whitespace == {" ", "\t", "\r", Newline}

Contains(s, c) == \E k \in 1..Len(s) : s[k] = c

\* str.split(sep): the pieces between the occurrences of sep, in order
RECURSIVE Split(_, _)
Split(s, sep) ==
    IF ~Contains(s, sep)
    THEN <<s>>
    ELSE LET k == CHOOSE n \in 1..Len(s) :
                      s[n] = sep /\ \A m \in 1..(n - 1) : s[m] # sep
         IN  <<SubSeq(s, 1, k - 1)>> \o Split(SubSeq(s, k + 1, Len(s)), sep)

RECURSIVE LStrip(_)
LStrip(s) == IF s # <<>> /\ Head(s) \in Whitespace THEN LStrip(Tail(s)) ELSE s

RECURSIVE RStrip(_)
RStrip(s) == IF s # <<>> /\ Last(s) \in Whitespace
             THEN RStrip(SubSeq(s, 1, Len(s) - 1))
             ELSE s

\* str.strip()
Strip(s) == RStrip(LStrip(s))

\* line.split("Session ID:")[-1].strip()
TokenOfLine(line) == Strip(Last(Split(line, Marker)))

\* the loop without its break: the last matching line decides
RECURSIVE ScanLinesNoBreak(_)
ScanLinesNoBreak(lines) ==
    IF lines = <<>>
    THEN PyNone
    ELSE LET later == ScanLinesNoBreak(Tail(lines))
         IN  IF ~later.isNone THEN later
             ELSE IF Contains(Head(lines), Marker)
                  THEN Some(TokenOfLine(Head(lines)))
                  ELSE PyNone

\* lines 137-141: the for / if / break loop over the lines
RECURSIVE ScanLines(_)
ScanLines(lines) ==
    IF lines = <<>>
    THEN PyNone
    ELSE IF Contains(Head(lines), Marker)
         THEN Some(TokenOfLine(Head(lines)))
         ELSE ScanLines(Tail(lines))

ParseSessionId(stdout) == ScanLines(Split(stdout, Newline))

-----------------------------------------------------------------------------
(* The command line of the external CLI *)

\* one argument of the command line; an argument that is a path is the path
Arg(s) == <<s>>

Args(ss) == [k \in 1..Len(ss) |-> Arg(ss[k])]

\* json.dumps of a dict, as one argument
JsonDumps(m) == <<"{">> \o Concat(m) \o <<"}">>

ConfigPaths(config_dir, cfc) == [k \in 1..Len(cfc) |-> config_dir \o <<cfc[k][1]>>]

\* --fork added beside, not inside, the test of resume_session_id
ResumeArgsFlat(kw) ==
    (IF TruthyStr(kw.resume_session_id)
     THEN <<Arg("--resume"), Arg(kw.resume_session_id.val)>>
     ELSE <<>>)
    \o (IF kw.fork_session THEN <<Arg("--fork")>> ELSE <<>>)

\* lines 117-120
ResumeArgs(kw) ==
    IF TruthyStr(kw.resume_session_id)
    THEN <<Arg("--resume"), Arg(kw.resume_session_id.val)>>
         \o (IF kw.fork_session THEN <<Arg("--fork")>> ELSE <<>>)
    ELSE <<>>

\* a command line that names the SAP version where the customer belongs
CmdHeadSwapped(kw) ==
    <<Arg("node"), <<"app", "dist", "cli.js">>, Arg("quote"),
      Arg("--customer"), Arg(kw.sap_version),
      Arg("--sap-version"), Arg(kw.customer_name),
      Arg("--config-files")>>

\* lines 99-105, up to the config paths
CmdHead(kw) ==
    <<Arg("node"), <<"app", "dist", "cli.js">>, Arg("quote"),
      Arg("--customer"), Arg(kw.customer_name),
      Arg("--sap-version"), Arg(kw.sap_version),
      Arg("--config-files")>>

BuildCmd(kw, config_paths) ==
    CmdHead(kw)
    \o config_paths
    \o <<Arg("--output"), OutputRoot, Arg("--fields")>>
    \o Args(kw.quote_fields)
    \o (IF TruthyDict(kw.custom_fields)
        THEN <<Arg("--custom-fields"), JsonDumps(kw.custom_fields.val)>>
        ELSE <<>>)
    \o (IF TruthyStr(kw.special_logic)
        THEN <<Arg("--special-logic"), Arg(kw.special_logic.val)>>
        ELSE <<>>)
    \o ResumeArgs(kw)

-----------------------------------------------------------------------------
(* Config staging *)

\* a scratch directory of a fixed name, shared by all invocations
MkdtempFixed(f) == {"tmpA"}

\* tempfile.mkdtemp: a name not in use under /tmp
Mkdtemp(f) == {t \in TmpNames : ~Exists(f, TmpRoot \o <<t>>)}

\* the loop over config_files_content.items(), in the dict's order
RECURSIVE WriteConfigs(_, _, _)
WriteConfigs(f, config_dir, cfc) ==
    IF cfc = <<>>
    THEN f
    ELSE WriteConfigs(WriteText(f, config_dir \o <<Head(cfc)[1]>>, Head(cfc)[2]),
                      config_dir, Tail(cfc))

-----------------------------------------------------------------------------
(* The external CLI, /app/dist/cli.js: it is told the store root and the   *)
(* customer on its command line and writes its artifacts below             *)
(* <--output>/<--customer>.                                                *)

ArgAfter(c, flag) == c[(CHOOSE k \in 1..Len(c) : c[k] = Arg(flag)) + 1]

CliOutputDir(c) == ArgAfter(c, "--output") \o ArgAfter(c, "--customer")

\* the artifacts a run may write, relative to its output directory
CliArtifacts == {<<"main.py">>, <<"lib", "util.py">>}

\* writing a file, creating the directories above it
CliWriteFile(f, p, data) ==
    [q \in DOMAIN f \cup Ancestors(p) \cup {p} |->
        IF q = p THEN FileEntry(data)
        ELSE IF q \in DOMAIN f THEN f[q] ELSE DirEntry]

-----------------------------------------------------------------------------
(* generate_endpoint *)

Kwargs(customer, version, cfc, fields, custom, logic, resume, fork) ==
    [customer_name |-> customer, sap_version |-> version,
     config_files_content |-> cfc, quote_fields |-> fields,
     custom_fields |-> custom, special_logic |-> logic,
     resume_session_id |-> resume, fork_session |-> fork]

\* subprocess.run with check=True
SubprocessRaisesChecked(returncode) == returncode # 0

\* subprocess.run(cmd, capture_output=True, text=True) without check=True:
\* a CompletedProcess for every exit code, never CalledProcessError
SubprocessRaises(returncode) == FALSE

\* the dict that generate_endpoint returns
ResultDict(i) ==
    [session_id |-> session_id[i],
     output_dir |-> OutputRoot \o <<kwargs[i].val.customer_name>>,
     files |-> generated_files[i],
     stdout |-> proc[i].val.stdout,
     stderr |-> proc[i].val.stderr,
     exit_code |-> proc[i].val.returncode]

\* lines 86-134: the scratch directory, the config files, the command line,
\* the lookup of the API key and the start of the child process
generate_endpoint(i, kw) ==
    /\ pc[i] = "idle"
    /\ \E t \in Mkdtemp(fs) :
        LET temp_path == TmpRoot \o <<t>>
            config_dir == temp_path \o <<"config">>
            staged == WriteConfigs(Mkdir(Mkdir(fs, temp_path), config_dir),
                                   config_dir, kw.config_files_content)
            config_paths == ConfigPaths(config_dir, kw.config_files_content)
        IN  /\ kwargs' = [kwargs EXCEPT ![i] = Some(kw)]
            /\ IF env
               THEN /\ fs' = staged
                    /\ tmpdir' = [tmpdir EXCEPT ![i] = temp_path]
                    /\ cmd' = [cmd EXCEPT ![i] = BuildCmd(kw, config_paths)]
                    /\ pc' = [pc EXCEPT ![i] = "running"]
                    /\ trace' = [trace EXCEPT ![i] = Append(@, "spawn")]
               ELSE \* KeyError: the with block removes the scratch directory
                    /\ fs' = RmTree(staged, temp_path)
                    /\ pc' = [pc EXCEPT ![i] = "failed"]
                    /\ trace' = [trace EXCEPT ![i] = Append(@, "raise")]
                    /\ UNCHANGED <<tmpdir, cmd>>
    /\ UNCHANGED <<mtime, published, env, proc, session_id, generated_files,
                   result, wrote, reply>>

\* the child process writes one artifact
CliWrite(i) ==
    /\ pc[i] = "running"
    /\ \E rel \in CliArtifacts :
        LET p == CliOutputDir(cmd[i]) \o rel
        IN  /\ fs' = CliWriteFile(fs, p, i)
            /\ wrote' = [wrote EXCEPT ![i] = @ \cup {p}]
    /\ UNCHANGED <<mtime, published, env, pc, body, kwargs, tmpdir, cmd, proc,
                   session_id, generated_files, result, trace, reply>>

\* lines 126-141: subprocess.run returns, stdout is searched for the session id
ChildExit(i, outcomes) ==
    /\ pc[i] = "running"
    /\ \E out \in outcomes :
        /\ proc' = [proc EXCEPT ![i] = Some(out)]
        /\ IF SubprocessRaises(out.returncode)
           THEN /\ fs' = RmTree(fs, tmpdir[i])
                /\ pc' = [pc EXCEPT ![i] = "failed"]
                /\ trace' = [trace EXCEPT ![i] = @ \o <<"exit", "raise">>]
                /\ UNCHANGED session_id
           ELSE /\ fs' = fs
                /\ session_id' = [session_id EXCEPT ![i] = ParseSessionId(out.stdout)]
                /\ pc' = [pc EXCEPT ![i] = "exited"]
                /\ trace' = [trace EXCEPT ![i] = Append(@, "exit")]
    /\ UNCHANGED <<mtime, published, env, body, kwargs, tmpdir, cmd, generated_files,
                   result, wrote, reply>>

\* lines 144-151: the files below /output/<customer_name>, relative to /output
ScanOutput(f, customer_name) ==
    LET output_dir == OutputRoot \o <<customer_name>>
    IN  IF Exists(f, output_dir)
        THEN {RelativeTo(p, OutputRoot) : p \in {q \in RGlob(f, output_dir) : IsFile(f, q)}}
        ELSE {}

Scan(i) ==
    /\ pc[i] = "exited"
    /\ generated_files' = [generated_files EXCEPT
                              ![i] = ScanOutput(fs, kwargs[i].val.customer_name)]
    /\ pc' = [pc EXCEPT ![i] = "scanned"]
    /\ trace' = [trace EXCEPT ![i] = Append(@, "scan")]
    /\ UNCHANGED <<fs, mtime, published, env, body, kwargs, tmpdir, cmd, proc,
                   session_id, result, wrote, reply>>

\* a commit made only after a successful run
CommitOnSuccess(i) ==
    /\ pc[i] = "scanned"
    /\ pc' = [pc EXCEPT ![i] = "committed"]
    /\ IF proc[i].val.returncode = 0
       THEN /\ published' = Volume(fs)
            /\ trace' = [trace EXCEPT ![i] = Append(@, "commit")]
       ELSE UNCHANGED <<published, trace>>
    /\ UNCHANGED <<fs, mtime, env, body, kwargs, tmpdir, cmd, proc, session_id,
                   generated_files, result, wrote, reply>>

\* line 154: volume.commit()
Commit(i) ==
    /\ pc[i] = "scanned"
    /\ published' = Volume(fs)
    /\ pc' = [pc EXCEPT ![i] = "committed"]
    /\ trace' = [trace EXCEPT ![i] = Append(@, "commit")]
    /\ UNCHANGED <<fs, mtime, env, body, kwargs, tmpdir, cmd, proc, session_id,
                   generated_files, result, wrote, reply>>

\* lines 156-163: the result is returned and the with block ends
Return(i) ==
    /\ pc[i] = "committed"
    /\ result' = [result EXCEPT ![i] = Some(ResultDict(i))]
    /\ fs' = RmTree(fs, tmpdir[i])
    /\ pc' = [pc EXCEPT ![i] = "returned"]
    /\ trace' = [trace EXCEPT ![i] = Append(@, "return")]
    /\ UNCHANGED <<mtime, published, env, body, kwargs, tmpdir, cmd, proc, session_id,
                   generated_files, wrote, reply>>

\* line 45: the platform ends an invocation whose child is still running
Timeout(i) ==
    /\ pc[i] = "running"
    /\ pc' = [pc EXCEPT ![i] = "killed"]
    /\ trace' = [trace EXCEPT ![i] = Append(@, "timeout")]
    /\ UNCHANGED <<fs, mtime, published, env, body, kwargs, tmpdir, cmd, proc,
                   session_id, generated_files, result, wrote, reply>>

-----------------------------------------------------------------------------
(* api_generate and main: the two callers of generate_endpoint *)

RequiredKeys == {"customer_name", "sap_version", "config_files", "quote_fields"}

\* dict.get(key, default)
ItemGet(item, key, default) == IF key \in DOMAIN item THEN item[key] ELSE default

\* lines 256-265: the keyword arguments built from the request body
ApiKwargs(item) ==
    Kwargs(item.customer_name, item.sap_version, item.config_files,
           item.quote_fields,
           ItemGet(item, "custom_fields", PyNone),
           ItemGet(item, "special_logic", PyNone),
           ItemGet(item, "resume_session_id", PyNone),
           ItemGet(item, "fork_session", FALSE))

api_generate(i, items) ==
    \E item \in items :
        /\ body' = [body EXCEPT ![i] = Some(item)]
        /\ IF RequiredKeys \subseteq DOMAIN item
           THEN generate_endpoint(i, ApiKwargs(item))
           ELSE \* item["..."] raises KeyError before generate_endpoint is called
             /\ pc[i] = "idle"
             /\ pc' = [pc EXCEPT ![i] = "rejected"]
             /\ trace' = [trace EXCEPT ![i] = Append(@, "keyerror")]
             /\ UNCHANGED <<fs, mtime, published, env, body, kwargs, tmpdir, cmd, proc,
                            session_id, generated_files, result, wrote,
                            reply>>

\* lines 276-294: the example config files of main
MainConfigFiles ==
    << <<"VBAK_structure.txt", "Table: VBAK">>,
       <<"custom_fields.txt", "Custom Fields">> >>

MainQuoteFields == <<"customer_id", "quote_date", "total_amount">>

\* lines 297-304
MainKwargs(customer) ==
    Kwargs(customer, "ECC6", MainConfigFiles, MainQuoteFields,
           Some(<< <<"ZZPRIORITY", "Priority level">> >>),
           Some("Apply 10% discount for VIP customers"),
           PyNone, FALSE)

main(i, names) ==
    /\ \E customer \in names : generate_endpoint(i, MainKwargs(customer))
    /\ UNCHANGED body

-----------------------------------------------------------------------------
(* Inputs *)

EmptyDict == [k \in {} |-> k]

ConfigDicts ==
    { << <<"VBAK_structure.txt", "Table: VBAP">> >>,
      << <<"custom_fields.txt", "Table: VBAK">>,
         <<"VBAK_structure.txt", "Custom Fields">> >> }

BaseItem(customer, cfc) ==
    [customer_name |-> customer, sap_version |-> "S4HANA",
     config_files |-> cfc, quote_fields |-> <<"customer_id">>]

\* request bodies of the concurrent specification
GenItems ==
    {BaseItem(c, << <<"VBAK_structure.txt", "Table: VBAP">> >>) : c \in CustomerNames}

Outcomes(codes, stdouts, stderrs) ==
    {[returncode |-> rc, stdout |-> so, stderr |-> se] :
        rc \in codes, so \in stdouts, se \in stderrs}

SessionLine == <<Marker, " ", "abc123">>

GenOutcomes ==
    Outcomes({0}, {SessionLine \o <<Newline>>}, {<<>>})
    \cup Outcomes({1}, {<<>>, SessionLine \o <<Newline>>}, {<<"Error">>})

-----------------------------------------------------------------------------
(* The concurrent specification: invocations of generate_endpoint *)

NoReply == [fn |-> "none"]

Init ==
    /\ fs = [p \in {OutputRoot, TmpRoot} |-> DirEntry]
    /\ mtime = EmptyDict
    /\ published = [p \in {OutputRoot} |-> DirEntry]
    /\ env \in BOOLEAN
    /\ pc = [i \in Invocations |-> "idle"]
    /\ body = [i \in Invocations |-> PyNone]
    /\ kwargs = [i \in Invocations |-> PyNone]
    /\ tmpdir = [i \in Invocations |-> <<>>]
    /\ cmd = [i \in Invocations |-> <<>>]
    /\ proc = [i \in Invocations |-> PyNone]
    /\ session_id = [i \in Invocations |-> PyNone]
    /\ generated_files = [i \in Invocations |-> {}]
    /\ result = [i \in Invocations |-> PyNone]
    /\ trace = [i \in Invocations |-> <<>>]
    /\ wrote = [i \in Invocations |-> {}]
    /\ reply = NoReply

Run(invs, items, names, outcomes) ==
    \E i \in invs :
        \/ api_generate(i, items)
        \/ main(i, names)
        \/ CliWrite(i)
        \/ ChildExit(i, outcomes)
        \/ Scan(i)
        \/ Commit(i)
        \/ Return(i)
        \/ Timeout(i)

Next == Run(Invocations, GenItems, CustomerNames, GenOutcomes)

Spec == Init /\ [][Next]_vars

-----------------------------------------------------------------------------
(* Properties of the concurrent specification *)

ResultFields == {"session_id", "output_dir", "files", "stdout", "stderr", "exit_code"}

FullTrace == <<"spawn", "exit", "scan", "commit", "return">>

FilesBelow(f, customer_name) ==
    {q \in DOMAIN f : /\ Len(q) > 2
                      /\ q[1] = "output"
                      /\ q[2] = customer_name
                      /\ f[q].kind = "file"}

\* C2: once the child has exited the steps are exit, scan, one commit, return,
\* in this order and for every exit code; no commit precedes the exit; and the
\* scan yields the regular files below /output/<customer> at that moment, each
\* as its path from the store root on.
C2_ScanCommitOrder ==
    /\ [](\A i \in Invocations :
            /\ \E n \in 0..Len(FullTrace) : trace[i] \in {SubSeq(FullTrace, 1, n),
                                                          <<"raise">>, <<"keyerror">>,
                                                          <<"spawn", "timeout">>}
            /\ ~proc[i].isNone => Len(trace[i]) >= 2
            /\ pc[i] = "returned" => trace[i] = FullTrace)
    /\ [][\A i \in Invocations :
            (pc[i] = "exited" /\ pc'[i] # "exited") =>
                /\ pc'[i] = "scanned"
                /\ generated_files'[i] =
                      {Tail(q) : q \in FilesBelow(fs, kwargs[i].val.customer_name)}]_vars

C2_Witness ==
    \E i \in Invocations :
        /\ pc[i] = "returned"
        /\ proc[i].val.returncode # 0
        /\ result[i].val.files # {}
        /\ \E p \in DOMAIN published : IsFile(published, p)

Alive(i) == pc[i] \in {"running", "exited", "scanned", "committed"}

\* C8: while the child of an invocation exists, the invocation's scratch config
\* directory holds exactly one file per entry of the mapping, named by the key
\* and holding the content, the paths after --config-files are these files, and
\* no two invocations share a scratch directory.
C8_ConfigStaging ==
    \A i \in Invocations :
        Alive(i) =>
            LET cfc == kwargs[i].val.config_files_content
                config_dir == tmpdir[i] \o <<"config">>
                n == Len(cfc)
            IN  /\ IsDir(fs, config_dir)
                /\ {p \in DOMAIN fs : IsPrefix(config_dir, p) /\ p # config_dir}
                      = {config_dir \o <<cfc[k][1]>> : k \in 1..n}
                /\ Cardinality({p \in DOMAIN fs : IsPrefix(config_dir, p) /\ p # config_dir}) = n
                /\ \A k \in 1..n :
                      /\ fs[config_dir \o <<cfc[k][1]>>] = [kind |-> "file", data |-> cfc[k][2]]
                      /\ cmd[i][8 + k] = config_dir \o <<cfc[k][1]>>
                /\ cmd[i][8] = <<"--config-files">>
                /\ cmd[i][9 + n] = <<"--output">>
                /\ \A j \in Invocations \ {i} :
                      Alive(j) => ~IsPrefix(tmpdir[i], tmpdir[j]) /\ ~IsPrefix(tmpdir[j], tmpdir[i])

C8_Witness ==
    \E i, j \in Invocations :
        /\ i # j
        /\ pc[i] = "running" /\ pc[j] = "running"
        /\ \E a \in 1..Len(kwargs[i].val.config_files_content),
              b \in 1..Len(kwargs[j].val.config_files_content) :
              /\ kwargs[i].val.config_files_content[a][1] = kwargs[j].val.config_files_content[b][1]
              /\ kwargs[i].val.config_files_content[a][2] # kwargs[j].val.config_files_content[b][2]

\* C9: the child of an invocation writes only below /output/<its customer>, so
\* invocations for different customers never write into each other's
\* subdirectory; invocations for the same customer are not kept apart (the
\* witness: one returns a file list holding part of what the other, still
\* running, has written).
C9_WritesStayInCustomerDir ==
    \A i \in Invocations :
        /\ \A p \in wrote[i] : IsPrefix(<<"output", kwargs[i].val.customer_name>>, p)
        /\ \A j \in Invocations \ {i} :
              (~kwargs[i].isNone /\ ~kwargs[j].isNone
               /\ kwargs[i].val.customer_name # kwargs[j].val.customer_name)
                  => \A p \in wrote[i] : p[2] # kwargs[j].val.customer_name

C9_Witness ==
    \E i, j \in Invocations :
        /\ i # j
        /\ pc[i] = "returned" /\ pc[j] = "running"
        /\ kwargs[i].val.customer_name = kwargs[j].val.customer_name
        /\ \E p \in wrote[j] \ wrote[i] : Tail(p) \in result[i].val.files
        /\ \E q \in wrote[j] : Tail(q) \notin result[i].val.files
        /\ \E p \in wrote[j] : p \in DOMAIN published
        /\ \E q \in wrote[j] : q \notin DOMAIN published

-----------------------------------------------------------------------------
(* The command-line specification: one invocation, every combination of the *)
(* optional request fields                                                  *)

ResumeParts ==
    {EmptyDict, [resume_session_id |-> PyNone], [resume_session_id |-> Some("")],
     [resume_session_id |-> Some("sess-1")]}

ForkParts == {EmptyDict, [fork_session |-> FALSE], [fork_session |-> TRUE]}

CustomParts ==
    {EmptyDict, [custom_fields |-> Some(<<>>)],
     [custom_fields |-> Some(<< <<"ZZFIELD", "Description">> >>)]}

LogicParts == {EmptyDict, [special_logic |-> Some("")], [special_logic |-> Some("VIP discount")]}

CmdItems ==
    {BaseItem("acme", cfc) @@ r @@ f @@ c @@ l :
        cfc \in ConfigDicts, r \in ResumeParts, f \in ForkParts,
        c \in CustomParts, l \in LogicParts}
    \cup {[customer_name |-> "acme", sap_version |-> "R3"]}

CmdOutcomes == Outcomes({0, 2}, {SessionLine}, {<<>>})

NextCmd == Run({"inv1"}, CmdItems, {"test-customer"}, CmdOutcomes)

SpecCmd == Init /\ [][NextCmd]_vars

HasResume(kw) == ~kw.resume_session_id.isNone /\ kw.resume_session_id.val # ""

\* C10: in the command line built, --fork appears iff the fork flag is true and
\* the resume session id is non-empty, and --resume <id> appears iff the
\* resume session id is non-empty; a request body without fork_session gives
\* no --fork.
C10_ForkOnlyWithResume ==
    \A i \in Invocations :
        cmd[i] # <<>> =>
            LET kw == kwargs[i].val
                c == cmd[i]
            IN  /\ Contains(c, <<"--fork">>) <=> (kw.fork_session /\ HasResume(kw))
                /\ Contains(c, <<"--resume">>) <=> HasResume(kw)
                /\ HasResume(kw) =>
                      \E k \in 1..(Len(c) - 1) :
                          c[k] = <<"--resume">> /\ c[k + 1] = <<kw.resume_session_id.val>>
                /\ Contains(c, <<"--fork">>) => Contains(c, <<"--resume">>)
                /\ (~body[i].isNone /\ "fork_session" \notin DOMAIN body[i].val)
                      => ~Contains(c, <<"--fork">>)

C10_Witness ==
    \E i \in Invocations :
        /\ pc[i] = "running"
        /\ ~body[i].isNone
        /\ "fork_session" \in DOMAIN body[i].val
        /\ body[i].val.fork_session
        /\ "resume_session_id" \notin DOMAIN body[i].val
        /\ ~Contains(cmd[i], <<"--fork">>)
        /\ ~Contains(cmd[i], <<"--resume">>)

-----------------------------------------------------------------------------
(* The parsing specification: one invocation, every stdout of at most       *)
(* MaxStdoutLen pieces                                                      *)

StdoutPieces == {Marker, " ", "abc123", Newline}

AllStdouts == UNION {[1..n -> StdoutPieces] : n \in 0..MaxStdoutLen}

ParseItems == {BaseItem("acme", <<>>)}

ParseOutcomes == Outcomes({0}, AllStdouts, {<<>>})

NextParse == Run({"inv1"}, ParseItems, {"acme"}, ParseOutcomes)

SpecParse == Init /\ [][NextParse]_vars

SetMin(S) == CHOOSE x \in S : \A y \in S : x <= y
SetMax(S) == CHOOSE x \in S : \A y \in S : x >= y

\* the lines of a text: the segments between newlines, by their positions
LineStarts(s) == {a \in 1..(Len(s) + 1) : a = 1 \/ s[a - 1] = Newline}
LineFrom(s, a) ==
    LET ends == {b \in a..(Len(s) + 1) : b = Len(s) + 1 \/ s[b] = Newline}
    IN  SubSeq(s, a, SetMin(ends) - 1)
MarkerLines(s) == {a \in LineStarts(s) : Contains(LineFrom(s, a), Marker)}
FirstMarkerLine(s) == LineFrom(s, SetMin(MarkerLines(s)))

\* t is r without the whitespace at its two ends
IsStripOf(t, r) ==
    \E x \in 1..(Len(r) + 1), y \in 0..Len(r) :
        /\ t = SubSeq(r, x, y)
        /\ \A k \in 1..Len(r) : (k < x \/ k > y) => r[k] \in Whitespace
        /\ t # <<>> => t[1] \notin Whitespace /\ t[Len(t)] \notin Whitespace

\* the whitespace-delimited token at the start of r
FirstToken(r) ==
    LET ns == {k \in 1..Len(r) : r[k] \notin Whitespace}
    IN  IF ns = {} THEN <<>>
        ELSE LET a == SetMin(ns)
                 ws == {k \in a..Len(r) : r[k] \in Whitespace}
             IN  SubSeq(r, a, IF ws = {} THEN Len(r) ELSE SetMin(ws) - 1)

AfterFirstMarker(line) ==
    SubSeq(line, SetMin({k \in 1..Len(line) : line[k] = Marker}) + 1, Len(line))
AfterLastMarker(line) ==
    SubSeq(line, SetMax({k \in 1..Len(line) : line[k] = Marker}) + 1, Len(line))

Parsed(i) == pc[i] \in {"exited", "scanned", "committed", "returned"}

\* C3 as stated: the session id is the token that follows the marker on the
\* first stdout line containing the marker, and null exactly when no line
\* contains it.
C3_TokenAfterMarker ==
    \A i \in Invocations :
        Parsed(i) =>
            LET s == proc[i].val.stdout
            IN  /\ session_id[i].isNone <=> MarkerLines(s) = {}
                /\ MarkerLines(s) # {} =>
                      session_id[i].val = FirstToken(AfterFirstMarker(FirstMarkerLine(s)))

\* C3 amended: the session id is the rest of the first stdout line containing
\* the marker, from the marker's last occurrence on that line to the line's
\* end, without the whitespace at its two ends; null exactly when no line
\* contains the marker; later lines do not change it; and it is what the
\* caller receives.
C3_RestAfterLastMarker ==
    \A i \in Invocations :
        Parsed(i) =>
            LET s == proc[i].val.stdout
            IN  /\ session_id[i].isNone <=> MarkerLines(s) = {}
                /\ MarkerLines(s) # {} =>
                      IsStripOf(session_id[i].val, AfterLastMarker(FirstMarkerLine(s)))
                /\ pc[i] = "returned" => result[i].val.session_id = session_id[i]

C3_Witness ==
    \E i \in Invocations :
        /\ pc[i] = "returned"
        /\ Cardinality(MarkerLines(proc[i].val.stdout)) = 2
        /\ result[i].val.session_id = Some(<<"abc123">>)
        /\ FirstMarkerLine(proc[i].val.stdout) = <<Marker, " ", "abc123">>

-----------------------------------------------------------------------------
(* download_generated_code and list_customers *)

\* the orders in which a directory walk may yield the entries S
RECURSIVE Perms(_)
Perms(S) ==
    IF S = {} THEN {<<>>}
    ELSE UNION {{<<x>> \o q : q \in Perms(S \ {x})} : x \in S}

\* the archive name of a file that drops its directories
ArcnameBase(file_path, output_dir) == <<Last(file_path)>>

\* line 194: file_path.relative_to(output_dir)
Arcname(file_path, output_dir) == RelativeTo(file_path, output_dir)

\* a download that creates the missing directory and goes on
download_creating_dir(customer_name) ==
    LET output_dir == OutputRoot \o <<customer_name>>
    IN  /\ fs' = IF Exists(fs, output_dir) THEN fs ELSE Mkdir(fs, output_dir)
        /\ \E order \in Perms(RGlob(fs, output_dir)) :
              LET files == SelectSeq(order, LAMBDA q : IsFile(fs, q))
              IN  reply' = [fn |-> "download_generated_code",
                            customer_name |-> customer_name,
                            raised |-> "",
                            value |-> Some([k \in 1..Len(files) |->
                                [arcname |-> Arcname(files[k], output_dir),
                                 data |-> fs[files[k]].data]])]
        /\ UNCHANGED <<mtime, published, env, pc, body, kwargs, tmpdir, cmd, proc,
                       session_id, generated_files, result, trace, wrote>>

\* lines 184-198; the archive is the sequence of its members
download_generated_code(customer_name) ==
    LET output_dir == OutputRoot \o <<customer_name>>
    IN  /\ IF ~Exists(fs, output_dir)
           THEN reply' = [fn |-> "download_generated_code",
                          customer_name |-> customer_name,
                          raised |-> "FileNotFoundError",
                          value |-> PyNone]
           ELSE \E order \in Perms(RGlob(fs, output_dir)) :
                   LET files == SelectSeq(order, LAMBDA q : IsFile(fs, q))
                   IN  reply' = [fn |-> "download_generated_code",
                                 customer_name |-> customer_name,
                                 raised |-> "",
                                 value |-> Some([k \in 1..Len(files) |->
                                     [arcname |-> Arcname(files[k], output_dir),
                                      data |-> fs[files[k]].data]])]
        /\ UNCHANGED <<fs, mtime, published, env, pc, body, kwargs, tmpdir, cmd,
                       proc, session_id, generated_files, result, trace, wrote>>

\* the place of x in a list sorted by modified, ascending
InsertAsc(sorted, x) ==
    LET n == Cardinality({k \in 1..Len(sorted) : sorted[k].modified <= x.modified})
    IN  SubSeq(sorted, 1, n) \o <<x>> \o SubSeq(sorted, n + 1, Len(sorted))

\* the place of x in a list sorted by modified, descending: behind the
\* entries that are as recent (the sort is stable)
InsertDesc(sorted, x) ==
    LET n == Cardinality({k \in 1..Len(sorted) : sorted[k].modified >= x.modified})
    IN  SubSeq(sorted, 1, n) \o <<x>> \o SubSeq(sorted, n + 1, Len(sorted))

\* line 228: sorted(customers, key=lambda x: x["modified"], reverse=True)
RECURSIVE SortedByModified(_)
SortedByModified(cs) ==
    IF cs = <<>> THEN <<>>
    ELSE InsertDesc(SortedByModified(SubSeq(cs, 1, Len(cs) - 1)), Last(cs))

\* lines 221-226: the entry of one customer directory
CustomerEntry(f, mt, customer_dir) ==
    [name |-> Last(customer_dir),
     modified |-> mt[Last(customer_dir)],
     file_count |-> Cardinality(RGlob(f, customer_dir))]

\* lines 215-228
list_customers ==
    /\ IF Exists(fs, OutputRoot)
       THEN \E order \in Perms(IterDir(fs, OutputRoot)) :
               LET dirs == SelectSeq(order, LAMBDA q : IsDir(fs, q))
               IN  reply' = [fn |-> "list_customers",
                             value |-> SortedByModified(
                                 [k \in 1..Len(dirs) |-> CustomerEntry(fs, mtime, dirs[k])])]
       ELSE reply' = [fn |-> "list_customers", value |-> <<>>]
    /\ UNCHANGED <<fs, mtime, published, env, pc, body, kwargs, tmpdir, cmd,
                   proc, session_id, generated_files, result, trace, wrote>>

-----------------------------------------------------------------------------
(* The store specification: the two readers over every store built from    *)
(* the candidate files and directories below                               *)

StoreFileCandidates ==
    {<<"output", "acme", "main.py">>, <<"output", "acme", "lib", "main.py">>,
     <<"output", "globex", "util.py">>, <<"output", "README.md">>}

StoreDirCandidates == {<<"output", "acme", "empty">>, <<"output", "initech">>}

StoreContents == {"v1", "v2"}

StoreOf(files, dirs) ==
    LET ds == {OutputRoot, TmpRoot} \cup dirs
              \cup UNION {Ancestors(p) : p \in DOMAIN files \cup dirs}
    IN  [p \in DOMAIN files \cup ds |->
            IF p \in DOMAIN files THEN FileEntry(files[p]) ELSE DirEntry]

TopDirNames(f) == {p[2] : p \in {q \in DOMAIN f : Len(q) = 2 /\ q[1] = "output" /\ f[q].kind = "dir"}}

DownloadNames == {"acme", "globex", "initech", "README.md", "nobody"}

InitStore ==
    /\ \E present \in SUBSET StoreFileCandidates, dirs \in SUBSET StoreDirCandidates :
          \E files \in [present -> StoreContents] : fs = StoreOf(files, dirs)
    /\ mtime \in [TopDirNames(fs) -> 1..MaxTime]
    /\ published = Volume(fs)
    /\ env = TRUE
    /\ pc = [i \in Invocations |-> "idle"]
    /\ body = [i \in Invocations |-> PyNone]
    /\ kwargs = [i \in Invocations |-> PyNone]
    /\ tmpdir = [i \in Invocations |-> <<>>]
    /\ cmd = [i \in Invocations |-> <<>>]
    /\ proc = [i \in Invocations |-> PyNone]
    /\ session_id = [i \in Invocations |-> PyNone]
    /\ generated_files = [i \in Invocations |-> {}]
    /\ result = [i \in Invocations |-> PyNone]
    /\ trace = [i \in Invocations |-> <<>>]
    /\ wrote = [i \in Invocations |-> {}]
    /\ reply = NoReply

NextStore ==
    \/ list_customers
    \/ \E customer_name \in DownloadNames : download_generated_code(customer_name)

SpecStore == InitStore /\ [][NextStore]_vars

-----------------------------------------------------------------------------
(* Properties of the store specification *)

IsDownload(r) == r.fn = "download_generated_code"
IsListing(r) == r.fn = "list_customers"

\* C4: the file_count of every listed customer is the number of regular files
\* below its directory, subdirectories not counted.
C4_FileCountIsRegularFiles ==
    IsListing(reply) =>
        \A k \in 1..Len(reply.value) :
            reply.value[k].file_count
                = Cardinality(FilesBelow(fs, reply.value[k].name))

\* C5: a download for a customer without a directory ends in FileNotFoundError,
\* yields no archive and leaves the store as it was, the directory still absent.
C5_MissingDirNotFound ==
    [][\A c \in DownloadNames :
          (/\ reply' # reply
           /\ IsDownload(reply')
           /\ reply'.customer_name = c
           /\ ~Exists(fs, <<"output", c>>))
          => /\ reply'.raised = "FileNotFoundError"
             /\ reply'.value.isNone
             /\ fs' = fs
             /\ ~Exists(fs', <<"output", c>>)]_vars

C5_Witness ==
    /\ IsDownload(reply)
    /\ reply.raised = "FileNotFoundError"
    /\ reply.value.isNone
    /\ ~Exists(fs, <<"output", reply.customer_name>>)
    /\ TopDirNames(fs) # {}

\* extraction of an archive: arcname -> content, a later member of the same
\* name replacing an earlier one
RECURSIVE ZipExtract(_)
ZipExtract(members) ==
    IF members = <<>> THEN EmptyDict
    ELSE LET m == Last(members)
             before == ZipExtract(SubSeq(members, 1, Len(members) - 1))
         IN  [a \in DOMAIN before \cup {m.arcname} |->
                 IF a = m.arcname THEN m.data ELSE before[a]]

\* C6: the archive of an existing customer directory, once extracted, holds
\* every regular file below the directory at its path from the directory on
\* with its content, and the download leaves the store as it was.
C6_ArchiveRoundTrip ==
    /\ []((IsDownload(reply) /\ reply.raised = "") =>
            LET extracted == ZipExtract(reply.value.val)
            IN  \A p \in FilesBelow(fs, reply.customer_name) :
                    /\ Tail(Tail(p)) \in DOMAIN extracted
                    /\ extracted[Tail(Tail(p))] = fs[p].data)
    /\ [][(reply' # reply /\ IsDownload(reply')) => fs' = fs]_vars

C6_Witness ==
    /\ IsDownload(reply)
    /\ reply.raised = ""
    /\ \E a, b \in 1..Len(reply.value.val) :
          /\ Len(reply.value.val[a].arcname) = 1
          /\ Len(reply.value.val[b].arcname) = 2
          /\ Last(reply.value.val[a].arcname) = Last(reply.value.val[b].arcname)
          /\ reply.value.val[a].data # reply.value.val[b].data

\* C7: the listing has exactly one entry for each top-level directory of the
\* store and none for anything else, each with the directory's modification
\* time, and an entry with a greater modification time is never behind one
\* with a smaller.
C7_ListingSortedDesc ==
    IsListing(reply) =>
        LET v == reply.value
        IN  /\ {v[k].name : k \in 1..Len(v)} = TopDirNames(fs)
            /\ Len(v) = Cardinality(TopDirNames(fs))
            /\ \A k \in 1..Len(v) : v[k].modified = mtime[v[k].name]
            /\ \A a, b \in 1..Len(v) : v[a].modified > v[b].modified => a < b

C7_Witness ==
    /\ IsListing(reply)
    /\ Len(reply.value) = 3
    /\ reply.value[1].modified > reply.value[2].modified
    /\ reply.value[2].modified = reply.value[3].modified
    /\ IsFile(fs, <<"output", "README.md">>)

====
